---- MODULE Spec2Model ----
(***************************************************************************)
(* The repository layer of rust-todo-app: the TodoRepository interface,    *)
(* its in-memory implementation (a HashMap behind an RwLock) and its       *)
(* PostgreSQL implementation (sqlx statements on a pool), with the         *)
(* row-folding function fold_entities.  One behaviour runs one of the two  *)
(* implementations behind the interface; callers are concurrent tasks.     *)
(***************************************************************************)
EXTENDS Integers, Sequences, FiniteSets, TLC

VARIABLES
    repo,         \* which implementation create_app was given: "memory" or "db"
    store,        \* TodoRepositoryForMemory.store: HashMap<i32, TodoEntity>
    lock,         \* the RwLock around store: its writer (0: none) and its readers
    todos,        \* table todos: id -> [text, completed]
    todo_labels,  \* table todo_labels: sequence of rows [todo_id, label_id]
    seq,          \* the serial sequence behind todos.id: the last value it gave
    pc,           \* per task: the place it is at in the method it runs
    call,         \* per task: the method it runs and its arguments
    local,        \* per task: the method's local variables
    last,         \* history: the call that returned last, with its result
    createdIds,   \* history: the ids the successful creates returned, in order
    deleteCalled, \* history: some delete has been called
    nops,         \* history: the number of calls made so far
    nret,         \* history: the number of calls that have returned
    rows,         \* fold_entities: the rows it is given
    folded        \* fold_entities: what it gave back, once it has run

vars == <<repo, store, lock, todos, todo_labels, seq, pc, call, local, last,
          createdIds, deleteCalled, nops, nret, rows, folded>>

----------------------------------------------------------------------------
(* Bounds *)

NProcs == 2
MaxOps == 4
MaxDbOps == 2
MaxIdOps == 5
MaxId == 2
NLabels == 2
MaxRows == 3
MaxLiveOps == 2

Procs == 1..NProcs
Texts == {"a", "b"}
\* the ids a caller asks for
Ids == 1..MaxId
\* the label id lists a payload carries: none, one Label, every Label, and an id
\* that no Label has
LabelLists == {<<>>, <<1>>, [i \in 1..NLabels |-> i], <<NLabels + 1>>}

----------------------------------------------------------------------------
(* Values *)

None == <<>>
Some(x) == <<x>>
IsSome(o) == Len(o) = 1
\* Option::unwrap_or
UnwrapOr(o, d) == IF IsSome(o) THEN o[1] ELSE d

NoErr == [kind |-> "none", id |-> 0]
NotFound(id) == [kind |-> "NotFound", id |-> id]
Unexpected == [kind |-> "Unexpected", id |-> 0]
\* a sqlx::Error that `?` hands to the caller as it is (wrapped by anyhow only)
BackendError == [kind |-> "sqlx", id |-> 0]
\* Option::unwrap on None
Panic == [kind |-> "panic", id |-> 0]

Ok(v) == [ok |-> TRUE, val |-> v, err |-> NoErr]
Err(e) == [ok |-> FALSE, val |-> <<>>, err |-> e]

LabelNames == <<"L1", "L2", "L3", "L4", "L5">>
Label(i) == [id |-> i, name |-> LabelNames[i]]
\* table labels: the rows the label repository has inserted
LabelTable == {Label(i) : i \in 1..NLabels}

TodoEntity(id, text, completed, labels) ==
    [id |-> id, text |-> text, completed |-> completed, labels |-> labels]
\* TodoEntity::new of test_utils
\* an Item that is created already completed
TodoEntityNew_Completed(id, text) == TodoEntity(id, text, TRUE, <<>>)

TodoEntityNew(id, text) == TodoEntity(id, text, FALSE, <<>>)

\* the arguments of a call: the id (0: none) and the payload's fields
Arg(id, text, completed, labels) ==
    [id |-> id, text |-> text, completed |-> completed, labels |-> labels]
NoArg == Arg(0, None, None, None)
CreateTodo == {Arg(0, Some(t), None, Some(l)) : t \in Texts, l \in LabelLists}
\* a CreateTodo of which only the text has been read
CreateTodoText == {Arg(0, Some(t), None, None) : t \in Texts}
UpdateTodo ==
    {Arg(0, t, c, l) :
        t \in {None} \cup {Some(x) : x \in Texts},
        c \in {None} \cup {Some(x) : x \in BOOLEAN},
        l \in {None} \cup {Some(x) : x \in {<<>>, <<1>>}}}
\* an UpdateTodo of which only the labels are told
UpdateLabels == {a \in UpdateTodo : a.text = None /\ a.completed = None}
IdArg(i) == Arg(i, None, None, None)
IdArgs == {IdArg(i) : i \in Ids}

NoCall == [op |-> "none", arg |-> NoArg, res |-> Ok(<<>>)]
NoLocal == [id |-> 0, todo |-> None]
Idle == [op |-> "none", arg |-> NoArg]

memVars == <<store, lock>>
dbVars == <<todos, todo_labels, seq>>
foldVars == <<rows, folded>>

----------------------------------------------------------------------------
(* The calls *)

Init ==
    /\ repo \in {"memory", "db"}
    /\ store = <<>>
    /\ lock = [writer |-> 0, readers |-> {}]
    /\ todos = <<>>
    /\ todo_labels = <<>>
    /\ seq = 0
    /\ pc = [p \in Procs |-> "idle"]
    /\ call = [p \in Procs |-> Idle]
    /\ local = [p \in Procs |-> NoLocal]
    /\ last = NoCall
    /\ createdIds = <<>>
    /\ deleteCalled = FALSE
    /\ nops = 0
    /\ nret = 0
    /\ rows = <<>>
    /\ folded = None

Methods == {"create", "find", "all", "update", "delete"}

\* A handler calls a method of the repository it was given.  The value of an
\* argument is drawn where the method first reads it; an argument the method
\* returns without reading is left out of the call's record.
CallOf(p, methods, max) ==
    /\ repo = "memory"
    /\ pc[p] = "idle"
    /\ nops < max
    /\ \E m \in methods :
        /\ call' = [call EXCEPT ![p] = [op |-> m, arg |-> NoArg]]
        /\ deleteCalled' = (deleteCalled \/ m = "delete")
    /\ pc' = [pc EXCEPT ![p] = "start"]
    /\ nops' = nops + 1
    /\ UNCHANGED <<repo, memVars, dbVars, local, last, createdIds, nret>>

Call(p) == CallOf(p, Methods, MaxOps)

\* The method m of task p, called with arg, returns res to its caller.
ReturnOf(p, m, arg, res) ==
    /\ pc' = [pc EXCEPT ![p] = "idle"]
    /\ call' = [call EXCEPT ![p] = Idle]
    /\ local' = [local EXCEPT ![p] = NoLocal]
    /\ last' = [op |-> m, arg |-> arg, res |-> res]
    /\ createdIds' =
        IF m = "create" /\ res.ok
        THEN Append(createdIds, res.val.id) ELSE createdIds
    /\ nret' = nret + 1

Return(p, arg, res) ==
    /\ ReturnOf(p, call[p].op, arg, res)
    /\ UNCHANGED <<repo, deleteCalled, nops>>

\* The method of task p goes on to the place `to`.
Goto(p, to) ==
    /\ pc' = [pc EXCEPT ![p] = to]
    /\ UNCHANGED <<repo, createdIds, deleteCalled, nops, nret>>

----------------------------------------------------------------------------
(* TodoRepositoryForMemory *)

\* HashMap::insert
Insert(m, k, v) == [i \in (DOMAIN m) \cup {k} |-> IF i = k THEN v ELSE m[i]]
\* a removal that empties the map
Remove_All(m, k) == <<>>

\* HashMap::remove
Remove(m, k) == [i \in (DOMAIN m) \ {k} |-> m[i]]

\* a lookup that takes the entry out of the map
AfterGet_Removes(m, k) == Remove(m, k)

\* the map after HashMap::get, which borrows it: the map as it was
AfterGet(m, k) == m

\* a write lock that excludes nobody
CanWrite_NoExclusion(p) == TRUE

\* RwLock::write returns once the lock can be given
CanWrite(p) == lock.writer = 0 /\ lock.readers = {}

\* a read lock that is given while a writer holds the lock
CanRead_Always(p) == TRUE

\* RwLock::read returns once the lock can be given
CanRead(p) == lock.writer = 0

\* a guard that is kept when the method returns
Unlock_Keeps(p) == lock' = lock

\* the guard is dropped when the method returns
Unlock(p) ==
    lock' = [writer |-> IF lock.writer = p THEN 0 ELSE lock.writer,
             readers |-> lock.readers \ {p}]

\* store.len(), without the + 1
NextId_Count(m) == Cardinality(DOMAIN m)

\* store.len() + 1
NextId(m) == Cardinality(DOMAIN m) + 1

\* write_store_ref, at the top of create, update and delete
MemWriteLock(p) ==
    /\ repo = "memory"
    /\ pc[p] = "start"
    /\ call[p].op \in {"create", "update", "delete"}
    /\ CanWrite(p)
    /\ lock' = [lock EXCEPT !.writer = p]
    /\ Goto(p, call[p].op)
    /\ UNCHANGED <<store, dbVars, call, local, last>>

\* read_store_ref, at the top of find and all
MemReadLock(p) ==
    /\ repo = "memory"
    /\ pc[p] = "start"
    /\ call[p].op \in {"find", "all"}
    /\ CanRead(p)
    /\ lock' = [lock EXCEPT !.readers = @ \cup {p}]
    /\ Goto(p, call[p].op)
    /\ UNCHANGED <<store, dbVars, call, local, last>>

\* create: let id = (store.len() + 1) as i32; let todo = TodoEntity::new(id, text)
MemCreateId(p) ==
    /\ repo = "memory"
    /\ pc[p] = "create"
    /\ \E a \in CreateTodo :
        /\ call' = [call EXCEPT ![p].arg = a]
        /\ local' = [local EXCEPT ![p] =
              [id |-> NextId(store),
               todo |-> Some(TodoEntityNew(NextId(store), a.text[1]))]]
    /\ Goto(p, "create_insert")
    /\ UNCHANGED <<memVars, dbVars, last>>

\* create: store.insert(id, todo.clone()); Ok(todo)
MemCreateInsert(p) ==
    /\ repo = "memory"
    /\ pc[p] = "create_insert"
    /\ store' = Insert(store, local[p].id, local[p].todo[1])
    /\ Unlock(p)
    /\ Return(p, call[p].arg, Ok(local[p].todo[1]))
    /\ UNCHANGED dbVars

\* find: store.get(&id).map(clone).ok_or(NotFound(id))
MemFindResult(m, id) ==
    IF id \in DOMAIN m THEN Ok(m[id]) ELSE Err(NotFound(id))

MemFind(p) ==
    /\ repo = "memory"
    /\ pc[p] = "find"
    /\ Unlock(p)
    /\ \E a \in IdArgs :
        /\ store' = AfterGet(store, a.id)
        /\ Return(p, a, MemFindResult(store, a.id))
    /\ UNCHANGED dbVars

\* the sequences that hold each element of the set S once
Orderings(S) ==
    {s \in [1..Cardinality(S) -> S] : \A i, j \in DOMAIN s : i # j => s[i] # s[j]}

\* all: Vec::from_iter(store.values().cloned()), in the HashMap's iteration order
MemAll(p) ==
    /\ repo = "memory"
    /\ pc[p] = "all"
    /\ Unlock(p)
    /\ \E o \in Orderings(DOMAIN store) :
          Return(p, NoArg, Ok([i \in DOMAIN o |-> store[o[i]]]))
    /\ UNCHANGED <<store, dbVars>>

\* update: the TodoEntity built from the stored one and the payload
MemUpdated(old, id, payload) ==
    TodoEntity(id,
               UnwrapOr(payload.text, old.text),
               UnwrapOr(payload.completed, old.completed),
               <<>>)

\* update: what store.get(&id).context(NotFound(id)) gives
MemUpdateFound(m, id) == id \in DOMAIN m

\* update: store.get(&id).context(NotFound(id))?, then the new TodoEntity
MemUpdateGet(p) ==
    /\ repo = "memory"
    /\ pc[p] = "update"
    /\ \E i \in Ids :
        IF MemUpdateFound(store, i)
        THEN /\ \E a \in UpdateTodo :
                /\ call' = [call EXCEPT ![p].arg = [a EXCEPT !.id = i]]
                /\ local' = [local EXCEPT ![p] =
                      [id |-> i, todo |-> Some(MemUpdated(store[i], i, a))]]
             /\ Goto(p, "update_insert")
             /\ UNCHANGED <<lock, last>>
        ELSE /\ Unlock(p)
             /\ Return(p, IdArg(i), Err(NotFound(i)))
    /\ UNCHANGED <<store, dbVars>>

\* update: store.insert(id, todo.clone()); Ok(todo)
MemUpdateInsert(p) ==
    /\ repo = "memory"
    /\ pc[p] = "update_insert"
    /\ store' = Insert(store, local[p].id, local[p].todo[1])
    /\ Unlock(p)
    /\ Return(p, call[p].arg, Ok(local[p].todo[1]))
    /\ UNCHANGED dbVars

\* a delete that reports success whether or not the id was stored
MemDeleteResult_AlwaysOk(m, id) == Ok(<<>>)

\* delete: store.remove(&id).ok_or(NotFound(id))?; Ok(())
MemDeleteResult(m, id) ==
    IF id \in DOMAIN m THEN Ok(<<>>) ELSE Err(NotFound(id))

MemDelete(p) ==
    /\ repo = "memory"
    /\ pc[p] = "delete"
    /\ Unlock(p)
    /\ \E a \in IdArgs :
        /\ store' = Remove(store, a.id)
        /\ Return(p, a, MemDeleteResult(store, a.id))
    /\ UNCHANGED dbVars

MemStep(p) ==
    \/ MemWriteLock(p)
    \/ MemReadLock(p)
    \/ MemCreateId(p)
    \/ MemCreateInsert(p)
    \/ MemFind(p)
    \/ MemAll(p)
    \/ MemUpdateGet(p)
    \/ MemUpdateInsert(p)
    \/ MemDelete(p)

----------------------------------------------------------------------------
(* fold_entities *)

TodoWithLabelFromRow(id, text, completed, label_id, label_name) ==
    [id |-> id, text |-> text, completed |-> completed,
     label_id |-> label_id, label_name |-> label_name]

Min(S) == CHOOSE k \in S : \A j \in S : k <= j

\* an inner loop that looks at the last entry of accum only
Hits_LastOnly(accum, row) ==
    {k \in DOMAIN accum : k = Len(accum) /\ accum[k].id = row.id}

\* the inner loop: the entries of accum with `todo.id == row.id`
Hits(accum, row) == {k \in DOMAIN accum : accum[k].id = row.id}

\* Label { id: row.label_id.unwrap(), name: row.label_name.clone().unwrap() }
RowLabel(row) == [id |-> row.label_id[1], name |-> row.label_name[1]]

\* a new TodoEntity that is made without the label of its row
NewLabels_Empty(row) == <<>>

\* the labels of the TodoEntity made for a row with a new id
NewLabels(row) == IF IsSome(row.label_id) THEN <<RowLabel(row)>> ELSE <<>>

RECURSIVE FoldFrom(_, _, _)
\* The 'outer loop of fold_entities from row i on, accum being the Vec built so
\* far.  unwrap() of a None label_id or label_name panics.
FoldFrom(rs, i, accum) ==
    IF i > Len(rs)
    THEN [panicked |-> FALSE, todos |-> accum]
    ELSE LET row == rs[i]
             hits == Hits(accum, row)
         IN  IF hits # {}
             THEN IF IsSome(row.label_id) /\ IsSome(row.label_name)
                  THEN FoldFrom(rs, i + 1,
                         [accum EXCEPT ![Min(hits)].labels = Append(@, RowLabel(row))])
                  ELSE [panicked |-> TRUE, todos |-> accum]
             ELSE IF IsSome(row.label_id) /\ ~IsSome(row.label_name)
                  THEN [panicked |-> TRUE, todos |-> accum]
                  ELSE FoldFrom(rs, i + 1,
                         Append(accum,
                                TodoEntity(row.id, row.text, row.completed,
                                           NewLabels(row))))

fold_entities(rs) == FoldFrom(rs, 1, <<>>)

----------------------------------------------------------------------------
(* TodoRepositoryForDb *)

\* The statements run on &self.pool: each is its own transaction and its effect
\* is visible at once.  tx, begun and committed around them, holds no statement.

\* the table names the from clause of find's query gives, and the ones its select
\* list, join conditions and where clause use
FindFromNames == {"todos", "t1", "labels"}
FindUsedNames == {"todos", "labels", "todo", "t1"}
\* the same for all's query
AllFromNames == {"todos", "t1", "labels"}
AllUsedNames == {"todos", "labels", "t1"}
\* PostgreSQL rejects a query that uses a table name its from clause does not give
SqlResolves(used, from) == used \subseteq from

\* todos left outer join todo_labels left outer join labels, for one todos row
JoinedRows(tds, tls, id) ==
    LET links == SelectSeq(tls, LAMBDA r : r.todo_id = id)
        row(lid) ==
            IF \E l \in LabelTable : l.id = lid
            THEN TodoWithLabelFromRow(id, tds[id].text, tds[id].completed,
                     Some(lid), Some((CHOOSE l \in LabelTable : l.id = lid).name))
            ELSE TodoWithLabelFromRow(id, tds[id].text, tds[id].completed, None, None)
    IN  IF links = <<>>
        THEN <<TodoWithLabelFromRow(id, tds[id].text, tds[id].completed, None, None)>>
        ELSE [k \in DOMAIN links |-> row(links[k].label_id)]

\* an order by that takes the smallest id first
Max_Smallest(S) == CHOOSE k \in S : \A j \in S : k <= j

Max(S) == CHOOSE k \in S : \A j \in S : k >= j

RECURSIVE RowsDesc(_, _, _)
\* the joined rows of the todos with ids in S, order by todos.id desc
RowsDesc(tds, tls, S) ==
    IF S = {} THEN <<>>
    ELSE JoinedRows(tds, tls, Max(S)) \o RowsDesc(tds, tls, S \ {Max(S)})

\* find: fetch_all, map_err, fold_entities, first().ok_or(NotFound(id))
DbFindResult(tds, tls, id) ==
    IF ~SqlResolves(FindUsedNames, FindFromNames)
    THEN Err(Unexpected)
    ELSE LET f == fold_entities(RowsDesc(tds, tls, (DOMAIN tds) \cap {id}))
         IN  IF f.panicked THEN Err(Panic)
             ELSE IF f.todos = <<>> THEN Err(NotFound(id))
             ELSE Ok(f.todos[1])

\* all: fetch_all(...)?, Ok(fold_entities(items))
DbAllResult(tds, tls) ==
    IF ~SqlResolves(AllUsedNames, AllFromNames)
    THEN Err(BackendError)
    ELSE LET f == fold_entities(RowsDesc(tds, tls, DOMAIN tds))
         IN  IF f.panicked THEN Err(Panic) ELSE Ok(f.todos)

\* the foreign key of todo_labels.label_id
LabelsExist(ls) == \A k \in DOMAIN ls : \E l \in LabelTable : l.id = ls[k]

\* insert into todo_labels (todo_id, label_id) select $1, id from unnest($2)
InsertLabels(tls, id, ls) ==
    tls \o [k \in DOMAIN ls |-> [todo_id |-> id, label_id |-> ls[k]]]

\* a delete that leaves the rows of the association table where they are
DeleteLabels_KeepsRows(tls, id) == tls

\* delete from todo_labels where todo_id=$1
DeleteLabels(tls, id) == SelectSeq(tls, LAMBDA r : r.todo_id # id)

\* tx is begun before the first statement of create, update and delete and
\* committed after the last; it holds none of them, so begin() and commit()
\* change no table and are taken with the statement next to them.

\* A handler calls method m of the repository; nothing is between the call and
\* the method's first statement, and they are one step.
DbCall(p, m) ==
    /\ repo = "db"
    /\ pc[p] = "idle"
    /\ nops < MaxDbOps
    /\ nops' = nops + 1
    /\ deleteCalled' = (deleteCalled \/ m = "delete")
    /\ UNCHANGED repo

\* create: self.pool.begin();
\* insert into todos (text, completed) values ($1, false) returning *
DbCreateInsert(p) ==
    /\ DbCall(p, "create")
    /\ \E a \in CreateTodoText :
        /\ call' = [call EXCEPT ![p] = [op |-> "create", arg |-> a]]
        /\ todos' = Insert(todos, seq + 1, [text |-> a.text[1], completed |-> FALSE])
    /\ seq' = seq + 1
    /\ local' = [local EXCEPT ![p] = [id |-> seq + 1, todo |-> None]]
    /\ last' = NoCall
    /\ pc' = [pc EXCEPT ![p] = "create_labels"]
    /\ UNCHANGED <<memVars, todo_labels, createdIds, nret>>

\* create: insert into todo_labels ... .execute(&self.pool).await?
DbCreateLabels(p) ==
    /\ repo = "db"
    /\ pc[p] = "create_labels"
    /\ \E ls \in LabelLists :
        IF LabelsExist(ls)
        THEN /\ call' = [call EXCEPT ![p].arg.labels = Some(ls)]
             /\ todo_labels' = InsertLabels(todo_labels, local[p].id, ls)
             /\ last' = NoCall
             /\ Goto(p, "create_find")
             /\ UNCHANGED local
        ELSE /\ Return(p, [call[p].arg EXCEPT !.labels = Some(ls)], Err(BackendError))
             /\ UNCHANGED todo_labels
    /\ UNCHANGED <<memVars, todos, seq>>

\* create: tx.commit(); let todo = self.find(row.id).await?; Ok(todo)
DbCreateFind(p) ==
    /\ repo = "db"
    /\ pc[p] = "create_find"
    /\ Return(p, call[p].arg, DbFindResult(todos, todo_labels, local[p].id))
    /\ UNCHANGED <<memVars, dbVars>>

\* find
DbFind(p) ==
    /\ DbCall(p, "find")
    /\ \E a \in IdArgs : ReturnOf(p, "find", a, DbFindResult(todos, todo_labels, a.id))
    /\ UNCHANGED <<memVars, dbVars>>

\* all
DbAll(p) ==
    /\ DbCall(p, "all")
    /\ ReturnOf(p, "all", NoArg, DbAllResult(todos, todo_labels))
    /\ UNCHANGED <<memVars, dbVars>>

\* update, statement by statement
DbUpdate(p) ==
    /\ repo = "db"
    /\ CASE pc[p] = "idle" ->
            \* self.pool.begin(); let old_todo = self.find(id).await?
            /\ DbCall(p, "update")
            /\ \E i \in Ids :
                LET old == DbFindResult(todos, todo_labels, i)
                IN  IF old.ok
                    THEN /\ call' = [call EXCEPT ![p] =
                                        [op |-> "update", arg |-> IdArg(i)]]
                         /\ local' = [local EXCEPT ![p] =
                                         [id |-> i, todo |-> Some(old.val)]]
                         /\ pc' = [pc EXCEPT ![p] = "update_set"]
                         /\ UNCHANGED <<last, createdIds, nret>>
                    \* the failure is recorded with the labels of the payload
                    ELSE \E a \in UpdateLabels :
                            ReturnOf(p, "update", [a EXCEPT !.id = i], Err(old.err))
            /\ UNCHANGED dbVars
         [] pc[p] = "update_set" ->
            \* update todos set text=$1, completed=$2 where id=$3 returning *
            \* .fetch_one(&self.pool).await?
            /\ \E a \in UpdateTodo :
                IF local[p].id \in DOMAIN todos
                THEN /\ call' = [call EXCEPT ![p].arg = [a EXCEPT !.id = local[p].id]]
                     /\ todos' = [todos EXCEPT ![local[p].id] =
                          [text |-> UnwrapOr(a.text, local[p].todo[1].text),
                           completed |-> UnwrapOr(a.completed,
                                                  local[p].todo[1].completed)]]
                     /\ last' = NoCall
                     /\ Goto(p, IF IsSome(a.labels)
                                THEN "update_delete_labels" ELSE "update_find")
                     /\ UNCHANGED local
                ELSE /\ Return(p, [a EXCEPT !.id = local[p].id], Err(BackendError))
                     /\ UNCHANGED todos
            /\ UNCHANGED <<todo_labels, seq>>
         [] pc[p] = "update_delete_labels" ->
            \* delete from todo_labels where todo_id=$1
            /\ todo_labels' = DeleteLabels(todo_labels, local[p].id)
            /\ last' = NoCall
            /\ Goto(p, "update_insert_labels")
            /\ UNCHANGED <<todos, seq, call, local>>
         [] pc[p] = "update_insert_labels" ->
            \* insert into todo_labels ... .execute(&self.pool).await?
            /\ IF LabelsExist(call[p].arg.labels[1])
               THEN /\ todo_labels' =
                         InsertLabels(todo_labels, local[p].id, call[p].arg.labels[1])
                    /\ last' = NoCall
                    /\ Goto(p, "update_find")
                    /\ UNCHANGED <<call, local>>
               ELSE /\ Return(p, call[p].arg, Err(BackendError))
                    /\ UNCHANGED todo_labels
            /\ UNCHANGED <<todos, seq>>
         [] pc[p] = "update_find" ->
            \* tx.commit(); let todo = self.find(id).await?; Ok(todo)
            /\ Return(p, call[p].arg, DbFindResult(todos, todo_labels, local[p].id))
            /\ UNCHANGED dbVars
         [] OTHER -> FALSE
    /\ UNCHANGED memVars

\* delete: self.pool.begin();
\* delete from todo_labels where todo_id=$1 .execute(&self.pool)
DbDeleteLabels(p) ==
    /\ DbCall(p, "delete")
    /\ \E a \in IdArgs :
        /\ call' = [call EXCEPT ![p] = [op |-> "delete", arg |-> a]]
        /\ local' = [local EXCEPT ![p] = [id |-> a.id, todo |-> None]]
        /\ todo_labels' = DeleteLabels(todo_labels, a.id)
    /\ last' = NoCall
    /\ pc' = [pc EXCEPT ![p] = "delete_todo"]
    /\ UNCHANGED <<memVars, todos, seq, createdIds, nret>>

\* what execute() of `delete from todos where id=$1` gives: the number of rows
\* deleted, never RowNotFound
DbDeleteResult(tds, id) == Ok(<<>>)

\* delete: delete from todos where id=$1 .execute(&self.pool); tx.commit(); Ok(())
DbDeleteTodo(p) ==
    /\ repo = "db"
    /\ pc[p] = "delete_todo"
    /\ todos' = Remove(todos, local[p].id)
    /\ Return(p, call[p].arg, DbDeleteResult(todos, local[p].id))
    /\ UNCHANGED <<memVars, todo_labels, seq>>

DbStep(p) ==
    \/ DbCreateInsert(p)
    \/ DbCreateLabels(p)
    \/ DbCreateFind(p)
    \/ DbFind(p)
    \/ DbAll(p)
    \/ DbUpdate(p)
    \/ DbDeleteLabels(p)
    \/ DbDeleteTodo(p)

----------------------------------------------------------------------------
(* Specifications *)

Next ==
    /\ \E p \in Procs : Call(p) \/ MemStep(p) \/ DbStep(p)
    /\ UNCHANGED foldVars

\* either implementation behind the interface
Spec == Init /\ [][Next]_vars

\* the in-memory store
InitMem == Init /\ repo = "memory"
NextMem ==
    /\ \E p \in Procs : Call(p) \/ MemStep(p)
    /\ UNCHANGED foldVars
SpecMem == InitMem /\ [][NextMem]_vars

\* the relational store
InitDb == Init /\ repo = "db"
NextDb ==
    /\ \E p \in Procs : DbStep(p)
    /\ UNCHANGED foldVars
SpecDb == InitDb /\ [][NextDb]_vars

\* the in-memory store with one caller that creates and deletes, one call
\* after the other
CallIds(p) == CallOf(p, {"create", "delete"}, MaxIdOps)
NextIds ==
    /\ \/ CallIds(1)
       \/ MemWriteLock(1)
       \/ MemCreateId(1)
       \/ MemCreateInsert(1)
       \/ MemDelete(1)
    /\ UNCHANGED foldVars
SpecIds == InitMem /\ [][NextIds]_vars

\* either implementation, the database holding the rows that earlier runs of
\* the application left in it: Item 1 with Labels 1 and 2 and Item 2 with no
\* Label, or what is left of them after deletes
PriorTodos ==
    [i \in {1, 2} |-> IF i = 1 THEN [text |-> "a", completed |-> FALSE]
                               ELSE [text |-> "b", completed |-> TRUE]]
PriorLabels == <<[todo_id |-> 1, label_id |-> 1], [todo_id |-> 1, label_id |-> 2]>>
InitPrior ==
    /\ repo \in {"memory", "db"}
    /\ \E S \in SUBSET (DOMAIN PriorTodos) :
        /\ repo = "memory" => S = {}
        /\ todos = [i \in S |-> PriorTodos[i]]
        /\ todo_labels = SelectSeq(PriorLabels, LAMBDA r : r.todo_id \in S)
        /\ seq = IF repo = "memory" THEN 0 ELSE Len(PriorTodos)
    /\ store = <<>>
    /\ lock = [writer |-> 0, readers |-> {}]
    /\ pc = [p \in Procs |-> "idle"]
    /\ call = [p \in Procs |-> Idle]
    /\ local = [p \in Procs |-> NoLocal]
    /\ last = NoCall
    /\ createdIds = <<>>
    /\ deleteCalled = FALSE
    /\ nops = 0
    /\ nret = 0
    /\ rows = <<>>
    /\ folded = None
SpecPrior == InitPrior /\ [][Next]_vars

\* the in-memory store under fair scheduling: a task that can go on inside its
\* method does, and a task that waits for the lock gets it if the lock comes
\* free again and again
CallLive(p) == CallOf(p, Methods, MaxLiveOps)
MemInside(p) ==
    /\ \/ MemCreateId(p)
       \/ MemCreateInsert(p)
       \/ MemFind(p)
       \/ MemAll(p)
       \/ MemUpdateGet(p)
       \/ MemUpdateInsert(p)
       \/ MemDelete(p)
    /\ UNCHANGED foldVars
MemLock(p) ==
    /\ MemWriteLock(p) \/ MemReadLock(p)
    /\ UNCHANGED foldVars
NextLive ==
    \E p \in Procs :
        \/ CallLive(p) /\ UNCHANGED foldVars
        \/ MemLock(p)
        \/ MemInside(p)
SpecLive ==
    /\ InitMem
    /\ [][NextLive]_vars
    /\ \A p \in Procs : WF_vars(MemInside(p)) /\ SF_vars(MemLock(p))

\* fold_entities on its own, given any Vec of at most MaxRows rows
RowIds == {1, 2}
RowLabelIds == {1, 2}
RowBases == {<<"a", FALSE>>, <<"b", FALSE>>, <<"b", TRUE>>}
\* the rows: label_id and label_name are both NULL or both not
RowValues ==
    {TodoWithLabelFromRow(i, b[1], b[2], None, None) : i \in RowIds, b \in RowBases}
    \cup {TodoWithLabelFromRow(i, b[1], b[2], Some(l), Some(LabelNames[l])) :
            i \in RowIds, b \in RowBases, l \in RowLabelIds}
RowSeqs == UNION {[1..n -> RowValues] : n \in 0..MaxRows}

InitFold ==
    /\ repo = "db"
    /\ store = <<>>
    /\ lock = [writer |-> 0, readers |-> {}]
    /\ todos = <<>>
    /\ todo_labels = <<>>
    /\ seq = 0
    /\ pc = [p \in Procs |-> "idle"]
    /\ call = [p \in Procs |-> Idle]
    /\ local = [p \in Procs |-> NoLocal]
    /\ last = NoCall
    /\ createdIds = <<>>
    /\ deleteCalled = FALSE
    /\ nops = 0
    /\ nret = 0
    /\ rows \in RowSeqs
    /\ folded = None

\* fold_entities(rows)
Fold ==
    /\ folded = None
    /\ folded' = Some(fold_entities(rows))
    /\ UNCHANGED <<repo, memVars, dbVars, pc, call, local, last, createdIds,
                   deleteCalled, nops, nret, rows>>

NextFold == Fold
SpecFold == InitFold /\ [][NextFold]_vars

----------------------------------------------------------------------------
(* Properties *)

\* this step is the return of a call of method m
Returned(m) == nret' = nret + 1 /\ last'.op = m

Range(f) == {f[k] : k \in DOMAIN f}
Distinct(f) == \A i, j \in DOMAIN f : i # j => f[i] # f[j]

\* the ids of the stored Items, and the Item stored under an id, as find gives it
StoredIds == IF repo = "memory" THEN DOMAIN store ELSE DOMAIN todos
FindResult(id) ==
    IF repo = "memory"
    THEN MemFindResult(store, id)
    ELSE DbFindResult(todos, todo_labels, id)
\* the base fields stored under an id
StoredBase(id) ==
    IF repo = "memory"
    THEN [text |-> store[id].text, completed |-> store[id].completed]
    ELSE todos[id]
\* the same after the step
StoredBaseAfter(id) ==
    IF repo = "memory"
    THEN [text |-> store'[id].text, completed |-> store'[id].completed]
    ELSE todos'[id]

\* C1 (as claimed): on either store, every create with a payload whose label
\* ids exist returns an Item, and a find of the returned id that comes right
\* after the create returns an Item equal to the one create returned.
C1_RoundTrip ==
    [][ /\ (Returned("create") /\ LabelsExist(last'.arg.labels[1]))
            => last'.res.ok
        /\ (Returned("find") /\ last.op = "create" /\ last.res.ok
              /\ last'.arg.id = last.res.val.id)
            => last'.res = last.res ]_vars

\* C2 (as claimed): in the in-memory store, the id a create returns is the id
\* of no Item stored when create runs, and the store grows by one Item.
C2_CreateIdFresh ==
    [][ (Returned("create") /\ repo = "memory")
            => /\ last'.res.ok
               /\ last'.res.val.id \notin DOMAIN store
               /\ Cardinality(DOMAIN store') = Cardinality(DOMAIN store) + 1 ]_vars

\* C3: in the in-memory store, as long as no delete has been called, every
\* create that returned succeeded, the ids the creates returned are pairwise
\* distinct, and the store holds as many Items as creates have returned,
\* however the calls of the tasks interleave.
C3_ConcurrentCreatesDistinct ==
    (repo = "memory" /\ ~deleteCalled)
        => /\ last.op = "create" => last.res.ok
           /\ Distinct(createdIds)
           /\ Cardinality(DOMAIN store) = Len(createdIds)

\* One create has returned, a second is in its critical section and a third
\* waits for the lock, with no delete called.
C3_Witness ==
    /\ repo = "memory"
    /\ ~deleteCalled
    /\ Len(createdIds) >= 1
    /\ \E p, q \in Procs :
        /\ p # q
        /\ pc[p] = "create_insert"
        /\ pc[q] = "start" /\ call[q].op = "create"

\* C4 (as claimed): the ids that the creates of one caller return, one call
\* after the other, never decrease, whatever deletes come between them.
C4_IdsNonDecreasing ==
    \A i, j \in DOMAIN createdIds : i < j => createdIds[i] <= createdIds[j]

\* C5: in the in-memory store, a find, update or delete of an id that no
\* stored Item has returns NotFound(id) and leaves the store as it was.
C5_MemNotFound ==
    [][ \A m \in {"find", "update", "delete"} :
          (Returned(m) /\ repo = "memory" /\ last'.arg.id \notin DOMAIN store)
            => /\ last'.res = Err(NotFound(last'.arg.id))
               /\ store' = store ]_vars

\* A delete of an id that is not stored has returned NotFound from a store
\* that holds an Item.
C5_Witness ==
    /\ repo = "memory"
    /\ last.op = "delete"
    /\ last.res = Err(NotFound(last.arg.id))
    /\ DOMAIN store # {}
    /\ last.arg.id \notin DOMAIN store

\* C6 (as claimed): a relational delete of an id that no row of todos has
\* returns NotFound(id).
C6_DbDeleteNotFound ==
    [][ (Returned("delete") /\ repo = "db" /\ last'.arg.id \notin DOMAIN todos)
            => last'.res = Err(NotFound(last'.arg.id)) ]_vars

\* C7 (as claimed): a relational find or update of an id that no row of todos
\* has returns NotFound(id), and writes nothing.
C7_DbFindUpdateNotFound ==
    [][ \A m \in {"find", "update"} :
          (Returned(m) /\ repo = "db" /\ last'.arg.id \notin DOMAIN todos)
            => /\ last'.res = Err(NotFound(last'.arg.id))
               /\ todos' = todos
               /\ todo_labels' = todo_labels ]_vars

\* C8 (as claimed): on either store, an update of a stored Item returns an
\* Item with the id asked for; with no text in the payload the Item returned
\* and the one stored have the text stored before, and with no completed in
\* the payload they have the completed stored before.
C8_PartialUpdate ==
    [][ (Returned("update") /\ last'.arg.id \in StoredIds)
            => /\ last'.res.ok
               /\ last'.res.val.id = last'.arg.id
               /\ last'.arg.id \in StoredIds'
               /\ ~IsSome(last'.arg.text)
                    => /\ last'.res.val.text = StoredBase(last'.arg.id).text
                       /\ StoredBaseAfter(last'.arg.id).text
                            = StoredBase(last'.arg.id).text
               /\ ~IsSome(last'.arg.completed)
                    => /\ last'.res.val.completed
                            = StoredBase(last'.arg.id).completed
                       /\ StoredBaseAfter(last'.arg.id).completed
                            = StoredBase(last'.arg.id).completed ]_vars

\* C9 (as claimed): on either store, an update of a stored Item whose payload
\* has no labels returns an Item with the labels that a find of the id gave
\* just before the update.
C9_UpdateKeepsLabels ==
    [][ (Returned("update") /\ last'.arg.id \in StoredIds
              /\ ~IsSome(last'.arg.labels))
            => /\ FindResult(last'.arg.id).ok
               /\ last'.res.ok
               /\ last'.res.val.labels = FindResult(last'.arg.id).val.labels ]_vars

\* C10 (as claimed): on either store, a create whose label ids all exist
\* returns an Item whose labels are the Labels with those ids, and a find of
\* that id or an all that comes right after gives the Item with these labels.
C10_CreateHydrated ==
    [][ /\ (Returned("create") /\ LabelsExist(last'.arg.labels[1]))
            => /\ last'.res.ok
               /\ Range(last'.res.val.labels)
                    = {l \in LabelTable : l.id \in Range(last'.arg.labels[1])}
        /\ (Returned("find") /\ last.op = "create" /\ last.res.ok
              /\ last'.arg.id = last.res.val.id)
            => /\ last'.res.ok
               /\ last'.res.val.labels = last.res.val.labels
        /\ (Returned("all") /\ last.op = "create" /\ last.res.ok)
            => /\ last'.res.ok
               /\ \E k \in DOMAIN last'.res.val :
                    /\ last'.res.val[k].id = last.res.val.id
                    /\ last'.res.val[k].labels = last.res.val.labels ]_vars

\* the Labels with the ids of the list ls
LabelsOf(ls) == {l \in LabelTable : l.id \in Range(ls)}

\* C11 (as claimed): on either store, an update of a stored Item whose payload
\* has a list of ids of existing Labels returns an Item whose labels are
\* exactly the Labels with these ids.
C11_UpdateAppliesLabels ==
    [][ (Returned("update") /\ last'.arg.id \in StoredIds
              /\ IsSome(last'.arg.labels) /\ LabelsExist(last'.arg.labels[1]))
            => /\ last'.res.ok
               /\ Range(last'.res.val.labels) = LabelsOf(last'.arg.labels[1])
               /\ Len(last'.res.val.labels) = Len(last'.arg.labels[1]) ]_vars

\* C12 (as claimed): on either store, an update of a stored Item with an empty
\* label list succeeds and returns an Item with no labels; when the same
\* update is made again right after, it returns an equal Item.
C12_EmptyLabelClearTwice ==
    [][ (Returned("update") /\ last'.arg.id \in StoredIds
              /\ last'.arg.labels = Some(<<>>))
            => /\ last'.res.ok
               /\ last'.res.val.labels = <<>>
               /\ (last.op = "update" /\ last.res.ok /\ last.arg = last'.arg)
                    => last'.res = last.res ]_vars

\* the rows of the association table with a todo_id
AssocRows(tls, id) == SelectSeq(tls, LAMBDA r : r.todo_id = id)

\* in this step a create stores an Item under id
CreateStores(id) ==
    IF repo = "memory"
    THEN Returned("create") /\ last'.res.ok /\ last'.res.val.id = id
    ELSE \E p \in Procs :
            pc[p] = "idle" /\ call'[p].op = "create" /\ local'[p].id = id

C14_DeleteAtomic ==
    [][ \A p \in Procs :
          (repo = "db" /\ pc[p] = "idle" /\ call'[p].op = "delete"
                /\ local'[p].id \in DOMAIN todos
                /\ AssocRows(todo_labels, local'[p].id) # <<>>)
            => ~ /\ local'[p].id \in DOMAIN todos'
                 /\ AssocRows(todo_labels', local'[p].id) = <<>> ]_vars

\* C15 (as claimed): when a relational create or update returns an error,
\* nothing that its statements wrote is in the tables: no row of todos and no
\* association row under the id a failed create was given, and the rows of the
\* id of a failed update as they were.
C15_AllOrNothing ==
    [][ \A p \in Procs :
          (repo = "db" /\ Returned(call[p].op) /\ pc[p] # "idle"
                /\ pc'[p] = "idle" /\ ~last'.res.ok)
            => /\ call[p].op = "create"
                    => /\ local[p].id \notin DOMAIN todos'
                       /\ AssocRows(todo_labels', local[p].id) = <<>>
               /\ call[p].op = "update"
                    => /\ todos' = todos
                       /\ todo_labels' = todo_labels ]_vars

\* C20 (as claimed): every failure that a method of the relational store
\* returns is NotFound(id) or Unexpected.
C20_DbErrorKinds ==
    (repo = "db" /\ ~last.res.ok) => last.res.err.kind \in {"NotFound", "Unexpected"}

\* the rows with an id, the first of them, and the Labels of those that have
\* one, in the order of the rows
RowsOf(rs, id) == SelectSeq(rs, LAMBDA r : r.id = id)
FirstRow(rs, id) == RowsOf(rs, id)[1]
FirstIndex(rs, id) == Min({k \in DOMAIN rs : rs[k].id = id})
RowLabels(rs, id) ==
    LET sel == SelectSeq(rs, LAMBDA r : r.id = id /\ IsSome(r.label_id))
    IN  [j \in DOMAIN sel |-> [id |-> sel[j].label_id[1], name |-> sel[j].label_name[1]]]
\* rows as the outer join gives them: a row with NULL label fields is the only
\* row of its Item
OuterJoinShape(rs) ==
    \A k, j \in DOMAIN rs :
        (~IsSome(rs[k].label_id) /\ j # k) => rs[j].id # rs[k].id
ExampleRows ==
    <<TodoWithLabelFromRow(1, "a", FALSE, Some(1), Some("L1")),
      TodoWithLabelFromRow(1, "a", FALSE, Some(2), Some("L2")),
      TodoWithLabelFromRow(2, "b", FALSE, None, None)>>
ExampleItems ==
    <<TodoEntity(1, "a", FALSE, <<Label(1), Label(2)>>),
      TodoEntity(2, "b", FALSE, <<>>)>>

C17_FoldDeduplicates ==
    (folded # None /\ ~folded[1].panicked)
        => \A k \in DOMAIN folded[1].todos :
              LET ls == folded[1].todos[k].labels
              IN  Distinct([j \in DOMAIN ls |-> ls[j].id])

\* C18 (as claimed): fold_entities returns for every Vec of rows, and a row
\* with NULL label fields adds no Label: every Item has as many Labels as it
\* has rows with a label.
C18_FoldNullLabels ==
    folded # None
        => /\ ~folded[1].panicked
           /\ \A k \in DOMAIN folded[1].todos :
                Len(folded[1].todos[k].labels)
                    = Len(RowLabels(rows, folded[1].todos[k].id))

\* the rows in every order
RowOrders(rs) ==
    {[k \in DOMAIN rs |-> rs[o[k]]] : o \in Orderings(DOMAIN rs)}
\* the ids of Items, and the sets of Labels of the Items with an id
ItemIds(r) == {r[k].id : k \in DOMAIN r}
LabelSets(r, id) == {Range(r[k].labels) : k \in {j \in DOMAIN r : r[j].id = id}}

\* C19: for rows that all have a label, fold_entities of the rows in any other
\* order returns the same set of Item ids and, for each id, the same set of
\* Labels.
C19_FoldAnyOrder ==
    (folded # None /\ \A k \in DOMAIN rows : IsSome(rows[k].label_id))
        => \A perm \in RowOrders(rows) :
              LET f == folded[1]
                  g == fold_entities(perm)
              IN  /\ ~f.panicked /\ ~g.panicked
                  /\ ItemIds(g.todos) = ItemIds(f.todos)
                  /\ \A id \in ItemIds(f.todos) :
                        LabelSets(g.todos, id) = LabelSets(f.todos, id)

\* fold_entities has run on three rows with labels, the rows of one Item not
\* next to each other.
C19_Witness ==
    /\ folded # None
    /\ Len(rows) = 3
    /\ \A k \in DOMAIN rows : IsSome(rows[k].label_id)
    /\ rows[1].id = rows[3].id /\ rows[1].id # rows[2].id
    /\ rows[1].label_id # rows[3].label_id

\* task p is inside the critical section of a write, of a read
InWrite(p) ==
    pc[p] \in {"create", "create_insert", "update", "update_insert", "delete"}
InRead(p) == pc[p] \in {"find", "all"}

\* C21: in the in-memory store, while a create, update or delete is inside
\* its critical section no other call, read or write, is inside one.
C21_Exclusion ==
    repo = "memory"
        => \A p, q \in Procs :
              (p # q /\ InWrite(p)) => ~(InWrite(q) \/ InRead(q))

\* Two reads are inside their critical sections at the same time.
C21_Witness ==
    /\ repo = "memory"
    /\ \E p, q \in Procs : p # q /\ InRead(p) /\ InRead(q)

\* C22: in the in-memory store a task holds the lock exactly while it is
\* inside a critical section, in the mode of its method (so the lock is
\* released at every return, the NotFound ones too, and no task holds it
\* twice), and under fair scheduling every call that has started returns.
C22_NoBlocking ==
    /\ [](\A p \in Procs :
            /\ lock.writer = p <=> InWrite(p)
            /\ p \in lock.readers <=> InRead(p))
    /\ \A p \in Procs : (pc[p] # "idle") ~> (pc[p] = "idle")

\* An update waits for the lock while a writer is inside its critical section.
C22_Witness ==
    \E p, q \in Procs :
        pc[p] = "start" /\ call[p].op = "update" /\ InWrite(q)

\* C23: in the in-memory store, the Item that a successful update stores has,
\* for text and for completed, the payload's value if the payload has one and
\* otherwise the value stored at the moment of the write: what another update
\* stored before is never written over by a value read earlier.
C23_NoLostUpdate ==
    [][ (Returned("update") /\ repo = "memory" /\ last'.res.ok)
            => /\ last'.arg.id \in DOMAIN store
               /\ store'[last'.arg.id].text
                    = UnwrapOr(last'.arg.text, store[last'.arg.id].text)
               /\ store'[last'.arg.id].completed
                    = UnwrapOr(last'.arg.completed, store[last'.arg.id].completed)
      ]_vars

\* An update with only a text has read the Item and is about to write it while
\* another update waits for the lock.
C23_Witness ==
    /\ repo = "memory"
    /\ \E p, q \in Procs :
        /\ pc[p] = "update_insert"
        /\ IsSome(call[p].arg.text) /\ ~IsSome(call[p].arg.completed)
        /\ pc[q] = "start" /\ call[q].op = "update"

\* C24: a relational all() returns every row of todos as one Item, the ids
\* strictly descending, each Item with the text and completed of its row and
\* with exactly the Labels of its association rows, none when it has no row.
C24_DbAll ==
    [][ (Returned("all") /\ repo = "db")
            => /\ last'.res.ok
               /\ LET r == last'.res.val
                  IN  /\ {r[k].id : k \in DOMAIN r} = DOMAIN todos
                      /\ \A i, j \in DOMAIN r : i < j => r[i].id > r[j].id
                      /\ \A k \in DOMAIN r :
                            LET links == AssocRows(todo_labels, r[k].id)
                            IN  /\ r[k].text = todos[r[k].id].text
                                /\ r[k].completed = todos[r[k].id].completed
                                /\ Len(r[k].labels) = Len(links)
                                /\ Range(r[k].labels)
                                     = LabelsOf([n \in DOMAIN links |->
                                                    links[n].label_id]) ]_vars

\* A relational all() has returned two Items, the first with no Label and the
\* second with two.
C24_Witness ==
    /\ repo = "db"
    /\ last.op = "all" /\ last.res.ok
    /\ Len(last.res.val) = 2
    /\ last.res.val[1].labels = <<>>
    /\ Len(last.res.val[2].labels) = 2

\* C25: on either store a create that returns success returns an Item with
\* the text of its payload and completed false, and the store holds this text
\* and completed false under the returned id; the row that a relational create
\* inserts has the payload's text and completed false.
C25_CreateBase ==
    [][ /\ (Returned("create") /\ last'.res.ok)
            => /\ last'.res.val.text = last'.arg.text[1]
               /\ last'.res.val.completed = FALSE
               /\ last'.res.val.id \in StoredIds'
               /\ StoredBaseAfter(last'.res.val.id)
                    = [text |-> last'.arg.text[1], completed |-> FALSE]
        /\ \A p \in Procs :
            (repo = "db" /\ pc[p] = "idle" /\ call'[p].op = "create")
                => /\ local'[p].id \in DOMAIN todos'
                   /\ todos'[local'[p].id]
                        = [text |-> call'[p].arg.text[1], completed |-> FALSE] ]_vars

\* A create of the in-memory store has returned an Item with the text "b" while
\* another Item was stored.
C25_Witness ==
    /\ repo = "memory"
    /\ last.op = "create" /\ last.res.ok
    /\ last.arg.text = Some("b")
    /\ last.res.val.id \in DOMAIN store
    /\ Cardinality(DOMAIN store) >= 2

\* C26: the id that a create of the in-memory store returns is the number of
\* Items stored while the create holds the write lock, plus one; as long as no
\* delete has been called, the k-th create to return returns k.
C26_MemIdIsCountPlusOne ==
    /\ [][ (Returned("create") /\ repo = "memory")
              => /\ last'.res.ok
                 /\ \E p \in Procs : lock.writer = p /\ pc[p] = "create_insert"
                 /\ last'.res.val.id = Cardinality(DOMAIN store) + 1 ]_vars
    /\ []((repo = "memory" /\ ~deleteCalled)
              => \A k \in DOMAIN createdIds : createdIds[k] = k)

\* Three creates of the in-memory store have returned and no delete was called.
C26_Witness ==
    /\ repo = "memory"
    /\ ~deleteCalled
    /\ Len(createdIds) = 3
    /\ last.op = "create" /\ last.res.ok /\ last.res.val.id = 3

\* C27 (as claimed): on the relational store an update of a stored Item
\* succeeds and leaves under the id, for each of text and completed, the value
\* of its payload when the payload has one and else the value stored when the
\* update writes, so that of two concurrent updates of one id, one of text and
\* one of completed, neither undoes the other.
C27_DbNoLostUpdate ==
    [][ (Returned("update") /\ repo = "db" /\ last'.arg.id \in DOMAIN todos)
            => /\ last'.res.ok
               /\ last'.arg.id \in DOMAIN todos'
               /\ todos'[last'.arg.id].text
                    = UnwrapOr(last'.arg.text, todos[last'.arg.id].text)
               /\ todos'[last'.arg.id].completed
                    = UnwrapOr(last'.arg.completed,
                               todos[last'.arg.id].completed) ]_vars

\* C28 (as claimed): when the statements of a relational create or update
\* have been committed, the call returns success with an Item that has the
\* text, the completed value and the labels that the call wrote, whatever the
\* other tasks do in between.
C28_ReportsWritten ==
    [][ \A p \in Procs :
          (repo = "db" /\ pc[p] \in {"create_find", "update_find"}
                       /\ pc'[p] = "idle")
            => /\ last'.res.ok
               /\ last'.res.val.id = local[p].id
               /\ IsSome(call[p].arg.text)
                    => last'.res.val.text = call[p].arg.text[1]
               /\ call[p].op = "create" => last'.res.val.completed = FALSE
               /\ IsSome(call[p].arg.completed)
                    => last'.res.val.completed = call[p].arg.completed[1]
               /\ IsSome(call[p].arg.labels)
                    => /\ Range(last'.res.val.labels)
                            = LabelsOf(call[p].arg.labels[1])
                       /\ Len(last'.res.val.labels)
                            = Len(call[p].arg.labels[1]) ]_vars

\* C29: on either store the steps of find and all leave the stored Items and
\* the tables as they were; a find that returns right after a find of the same
\* id, and an all that returns right after an all, with no write in between,
\* returns what the earlier one returned (for the in-memory all: the same
\* Items, the order being that of the map's iteration).
C29_ReadsHaveNoEffect ==
    [][ /\ ( \/ Returned("find")
             \/ Returned("all")
             \/ \E p \in Procs : pc[p] = "start" /\ pc'[p] \in {"find", "all"} )
            => UNCHANGED <<store, todos, todo_labels, seq>>
        /\ (Returned("find") /\ last.op = "find" /\ last'.arg = last.arg)
            => last'.res = last.res
        /\ (Returned("all") /\ last.op = "all")
            => IF repo = "db"
               THEN last'.res = last.res
               ELSE /\ last'.res.ok /\ last.res.ok
                    /\ Len(last'.res.val) = Len(last.res.val)
                    /\ Range(last'.res.val) = Range(last.res.val) ]_vars

\* A find of the in-memory store has returned a stored Item while another find
\* holds the read lock and is about to return.
C29_Witness ==
    /\ repo = "memory"
    /\ last.op = "find" /\ last.res.ok
    /\ last.arg.id \in DOMAIN store
    /\ \E p \in Procs : pc[p] = "find" /\ p \in lock.readers

\* the ids that the update or delete taking this step was called with
OwnIds ==
    {last'.arg.id : m \in {m \in {"update", "delete"} : Returned(m)}}
        \cup {local'[p].id :
                p \in {q \in Procs : /\ pc[q] # pc'[q]
                                     /\ call'[q].op \in {"update", "delete"}}}

\* this step is taken by an update or a delete
UpdateOrDeleteStep ==
    \/ Returned("update")
    \/ Returned("delete")
    \/ \E p \in Procs : pc[p] # pc'[p] /\ call'[p].op \in {"update", "delete"}

\* C30: on either store a step of an update or of a delete, whether the call
\* succeeds or fails, leaves every Item stored under another id than the
\* call's own as it was: its text, its completed value and its labels.
C30_OtherIdsUntouched ==
    [][ UpdateOrDeleteStep
            => \A b \in StoredIds \ OwnIds :
                 IF repo = "memory"
                 THEN b \in DOMAIN store' /\ store'[b] = store[b]
                 ELSE /\ b \in DOMAIN todos' /\ todos'[b] = todos[b]
                      /\ AssocRows(todo_labels', b) = AssocRows(todo_labels, b) ]_vars

\* An update of id 1 of the in-memory store has returned the Item it stored
\* while an Item was stored under id 2.
C30_Witness ==
    /\ repo = "memory"
    /\ last.op = "update" /\ last.res.ok /\ last.arg.id = 1
    /\ last.arg.text = Some("b")
    /\ {1, 2} \subseteq DOMAIN store
    /\ store[1].text = "b"

\* C31 (as claimed): on either store, a find of an id that returns right after
\* a successful update of that id returns the Item that the update returned;
\* an update of a stored Item whose payload has no text, no completed and no
\* labels returns the Item as it was stored and leaves it stored so.
C31_UpdateRoundTrip ==
    [][ /\ (Returned("find") /\ last.op = "update" /\ last.res.ok
                /\ last'.arg.id = last.arg.id)
            => /\ last'.res.ok
               /\ last'.res.val = last.res.val
        /\ (Returned("update") /\ last'.arg.id \in StoredIds
                /\ ~IsSome(last'.arg.text) /\ ~IsSome(last'.arg.completed)
                /\ ~IsSome(last'.arg.labels))
            => /\ last'.res.ok
               /\ last'.res.val.id = last'.arg.id
               /\ last'.res.val.text = StoredBase(last'.arg.id).text
               /\ last'.res.val.completed = StoredBase(last'.arg.id).completed
               /\ IF repo = "memory"
                  THEN /\ last'.res.val = store[last'.arg.id]
                       /\ store' = store
                  ELSE /\ Len(last'.res.val.labels)
                            = Len(AssocRows(todo_labels, last'.arg.id))
                       /\ todos' = todos
                       /\ todo_labels' = todo_labels ]_vars

====
